---- MODULE Spec2Model ----
(***************************************************************************)
(* A model of package uuid (SermoDigital/go.uuid): the UUID value type,   *)
(* its text and binary codecs, the generators NewV1..NewV5 and NewTime,   *)
(* and the process-wide v1/v2 storage behind getStorage.                  *)
(*                                                                         *)
(* Representation.  A UUID is a sequence of 16 bytes (Go's u[i] is u[i+1] *)
(* here).  A uint64 or int64 is the sequence of its 8 bytes, big-endian,  *)
(* because the values in play (100ns ticks since 1582) do not fit TLC's   *)
(* integers.  A text is a sequence of one-character strings.              *)
(***************************************************************************)
EXTENDS Integers, Sequences, FiniteSets, TLC

VARIABLES
    op,             \* name of the last exported function called ("" at start)
    arg,            \* its argument (or, for NewV1/NewV2, what getStorage returned)
    u,              \* the UUID it returned
    err,            \* the error it returned ("nil" when none, "panic" for a run-time panic)
    interfaces,     \* net.Interfaces() of this host: a sequence of hardware addresses
    storageDone,    \* storageOnce has run initStorage
    clockSequence,  \* uint16
    lastTime,       \* uint64
    hardwareAddr,   \* [6]byte
    marked,         \* a UUID returned by an earlier NewV1 call, or <<>> (history)
    incs,           \* clockSequence++ executions since marked was returned (history)
    calls,          \* getStorage calls started so far (history)
    pc,             \* per goroutine: where it is inside getStorage
    now, seq, addr, \* per goroutine: getStorage's result variables
    storageMutex,   \* goroutine holding storageMutex, or 0
    onceMutex,      \* goroutine holding storageOnce's internal mutex, or 0
    initRuns,       \* number of times initStorage has been entered (history)
    snap,           \* per goroutine: the storage as it was when it took storageMutex (history)
    retAddrs        \* every node address getStorage has returned (history)

valueVars == <<op, arg, u, err>>
storageVars == <<interfaces, storageDone, clockSequence, lastTime, hardwareAddr>>
historyVars == <<marked, incs, calls>>
procVars == <<pc, now, seq, addr, storageMutex, onceMutex, initRuns, snap, retAddrs>>
vars == <<op, arg, u, err, interfaces, storageDone, clockSequence, lastTime,
          hardwareAddr, marked, incs, calls, pc, now, seq, addr, storageMutex,
          onceMutex, initRuns, snap, retAddrs>>

----------------------------------------------------------------------------
(* Bounds of the model.                                                    *)

\* Clock readings are taken MaxTick+1 consecutive 100ns ticks apart.
MaxTick == 1
\* Texts are cut by up to MaxCut characters from the end of a canonical string.
MaxCut == 14
\* getStorage calls per run of the generator specification.
MaxCalls == 2
\* clockSequence++ executions followed after a marked NewV1 call.
MaxIncs == 16385
\* Goroutines calling getStorage concurrently, and the calls they make in all.
NumProcs == 2
MaxConcCalls == 3

----------------------------------------------------------------------------
(* Bytes and bit operators of Go on uint8 / uint16.                        *)

\* Bit k of the byte x.
Bit(x, k) == (x \div (2 ^ k)) % 2

\* a & b on bytes
BitAnd(a, b) ==
    Bit(a, 0) * Bit(b, 0) + 2 * Bit(a, 1) * Bit(b, 1) + 4 * Bit(a, 2) * Bit(b, 2)
    + 8 * Bit(a, 3) * Bit(b, 3) + 16 * Bit(a, 4) * Bit(b, 4)
    + 32 * Bit(a, 5) * Bit(b, 5) + 64 * Bit(a, 6) * Bit(b, 6)
    + 128 * Bit(a, 7) * Bit(b, 7)

\* a | b on bytes
BitOr(a, b) == a + b - BitAnd(a, b)

\* byte(v << n)
Shl8(v, n) == (v * (2 ^ n)) % 256

\* v >> n
Shr(v, n) == v \div (2 ^ n)

Zeros(n) == [i \in 1..n |-> 0]

\* dst with src copied over it from Go index off on (copy(dst[off:], src)).
CopyAt(dst, off, src) ==
    [i \in 1..Len(dst) |->
        IF i > off /\ i <= off + Len(src) THEN src[i - off] ELSE dst[i]]

\* binary.BigEndian.PutUint16(dst[off:], v)
PutUint16(dst, off, v) == CopyAt(dst, off, <<v \div 256, v % 256>>)

----------------------------------------------------------------------------
(* The UUID value type.                                                    *)

VariantNCS == 0
VariantRFC4122 == 1
VariantMicrosoft == 2
VariantFuture == 3

DomainPerson == 0
DomainGroup == 1
DomainOrg == 2

Nil == Zeros(16)

Version(v) == Shr(v[7], 4)

\* Variant with the third test on the mask of the second: never VariantFuture.
VariantNoFuture(v) ==
    IF BitAnd(v[9], 128) = 0 THEN VariantNCS
    ELSE IF BitAnd(BitAnd(v[9], 192), 64) = 0 THEN VariantRFC4122
    ELSE VariantMicrosoft

Variant(v) ==
    IF BitAnd(v[9], 128) = 0 THEN VariantNCS
    ELSE IF BitOr(BitAnd(v[9], 192), 128) = 128 THEN VariantRFC4122
    ELSE IF BitOr(BitAnd(v[9], 224), 192) = 192 THEN VariantMicrosoft
    ELSE VariantFuture

SetVersion(v, ver) == [v EXCEPT ![7] = BitOr(BitAnd(v[7], 15), Shl8(ver, 4))]

\* SetVariant that sets bit 7 of byte 8 and does not clear bit 6.
SetVariantKeepBit6(v) == [v EXCEPT ![9] = BitOr(v[9], 128)]

SetVariant(v) == [v EXCEPT ![9] = BitOr(BitAnd(v[9], 191), 128)]

----------------------------------------------------------------------------
(* encoding/hex as used by Bytes and UnmarshalText.                        *)

HexTable == <<"0", "1", "2", "3", "4", "5", "6", "7",
              "8", "9", "a", "b", "c", "d", "e", "f">>
HexUpper == <<"0", "1", "2", "3", "4", "5", "6", "7",
              "8", "9", "A", "B", "C", "D", "E", "F">>

\* hex.Encode of one byte
\* Two digits of a byte, low nibble first.
HexByteSwapped(b) == <<HexTable[(b % 16) + 1], HexTable[(b \div 16) + 1]>>

HexByte(b) == <<HexTable[(b \div 16) + 1], HexTable[(b % 16) + 1]>>

\* hex.Encode(dst, src): two lowercase digits per byte
RECURSIVE HexEncode(_)
HexEncode(src) ==
    IF src = <<>> THEN <<>> ELSE HexByte(Head(src)) \o HexEncode(Tail(src))

\* The value of a hex digit, or 16 when c is none.
FromHexChar(c) ==
    IF \E i \in 1..16 : HexTable[i] = c
    THEN (CHOOSE i \in 1..16 : HexTable[i] = c) - 1
    ELSE IF \E i \in 11..16 : HexUpper[i] = c
    THEN (CHOOSE i \in 11..16 : HexUpper[i] = c) - 1
    ELSE 16

\* hex.Decode(dst[off:], src), Len(src) even: the bytes decoded before the first
\* invalid digit are written, and the error says whether there was one.
RECURSIVE HexDecode(_, _, _)
HexDecode(dst, off, src) ==
    IF Len(src) < 2 THEN [dst |-> dst, err |-> "nil"]
    ELSE LET a == FromHexChar(src[1])
             b == FromHexChar(src[2])
         IN  IF a > 15 \/ b > 15
             THEN [dst |-> dst, err |-> "invalid byte"]
             ELSE HexDecode([dst EXCEPT ![off + 1] = a * 16 + b], off + 1,
                            SubSeq(src, 3, Len(src)))

----------------------------------------------------------------------------
(* The text codec.                                                         *)

dash == "-"
urnPrefix == <<"u", "r", "n", ":", "u", "u", "i", "d", ":">>
byteGroups == <<8, 4, 4, 4, 12>>

\* UUID.Bytes / UUID.String: xxxxxxxx-xxxx-xxxx-xxxx-xxxxxxxxxxxx
Bytes(v) ==
    HexEncode(SubSeq(v, 1, 4)) \o <<dash>> \o HexEncode(SubSeq(v, 5, 6)) \o <<dash>>
    \o HexEncode(SubSeq(v, 7, 8)) \o <<dash>> \o HexEncode(SubSeq(v, 9, 10))
    \o <<dash>> \o HexEncode(SubSeq(v, 11, 16))

Drop(t, n) == SubSeq(t, n + 1, Len(t))

\* The loop of UnmarshalText from group i (1..5) on: t is the text left, b the
\* number of bytes of v already written.  An index past the end of t is Go's
\* run-time panic.
RECURSIVE ParseGroups(_, _, _, _, _)
ParseGroups(v, b, t, i, braced) ==
    IF i > 5 THEN [u |-> v, err |-> "nil"]
    ELSE IF i > 1 /\ t = <<>> THEN [u |-> v, err |-> "panic"]
    ELSE IF i > 1 /\ t[1] # "-" THEN [u |-> v, err |-> "invalid string format"]
    ELSE LET t1 == IF i > 1 THEN Drop(t, 1) ELSE t
             byteGroup == byteGroups[i]
         IN  IF Len(t1) < byteGroup THEN [u |-> v, err |-> "too short"]
             ELSE IF i = 5 /\ Len(t1) > byteGroup
                      /\ ((braced /\ t1[byteGroup + 1] # "}")
                          \/ Len(Drop(t1, byteGroup)) > 1
                          \/ ~braced)
             THEN [u |-> v, err |-> "too long"]
             ELSE LET d == HexDecode(v, b, SubSeq(t1, 1, byteGroup))
                  IN  IF d.err # "nil" THEN [u |-> d.dst, err |-> d.err]
                      ELSE ParseGroups(d.dst, b + (byteGroup \div 2),
                                       Drop(t1, byteGroup), i + 1, braced)

\* (u *UUID) UnmarshalText(text), u holding v on entry
UnmarshalText(v, text) ==
    IF Len(text) < 32 THEN [u |-> v, err |-> "too short"]
    ELSE IF Len(text) > 45 THEN [u |-> v, err |-> "too long"]
    ELSE IF SubSeq(text, 1, 9) = urnPrefix
         THEN ParseGroups(v, 0, Drop(text, 9), 1, FALSE)
         ELSE IF text[1] = "{"
              THEN ParseGroups(v, 0, Drop(text, 1), 1, TRUE)
              ELSE ParseGroups(v, 0, text, 1, FALSE)

FromString(input) == UnmarshalText(Nil, input)

FromStringOrNil(input) ==
    LET r == FromString(input)
    IN  IF r.err = "panic" THEN r
        ELSE IF r.err # "nil" THEN [u |-> Nil, err |-> "nil"]
        ELSE [u |-> r.u, err |-> "nil"]

\* (u *UUID) UnmarshalBinary(data), u holding v on entry
UnmarshalBinary(v, data) ==
    IF Len(data) # 16 THEN [u |-> v, err |-> "length"]
    ELSE [u |-> CopyAt(v, 0, data), err |-> "nil"]

FromBytes(input) == UnmarshalBinary(Nil, input)

FromBytesOrNil(input) == [u |-> FromBytes(input).u, err |-> "nil"]

NamespaceDNSText ==
    <<"6", "b", "a", "7", "b", "8", "1", "0", "-", "9", "d", "a", "d", "-",
      "1", "1", "d", "1", "-", "8", "0", "b", "4", "-",
      "0", "0", "c", "0", "4", "f", "d", "4", "3", "0", "c", "8">>

NamespaceDNS == FromString(NamespaceDNSText).u

----------------------------------------------------------------------------------------------------------------------------------------
(* The state of the package once it is loaded, before any call.  ifs is    *)
(* the set of interface lists the host may have, args the set of arguments *)
(* the first call may be given.                                            *)

Procs == 1..NumProcs

Loaded(ifs, args) ==
    /\ op = "" /\ arg \in args /\ u = Nil /\ err = "nil"
    /\ interfaces \in ifs
    /\ storageDone = FALSE
    /\ clockSequence = 0
    /\ lastTime = Zeros(8)
    /\ hardwareAddr = Zeros(6)
    /\ marked = <<>> /\ incs = 0 /\ calls = 0
    /\ pc = [p \in Procs |-> "idle"]
    /\ now = [p \in Procs |-> Zeros(8)]
    /\ seq = [p \in Procs |-> 0]
    /\ addr = [p \in Procs |-> Zeros(6)]
    /\ storageMutex = 0 /\ onceMutex = 0 /\ initRuns = 0
    /\ snap = [p \in Procs |-> <<>>]
    /\ retAddrs = {}

----------------------------------------------------------------------------
(* Parsing: FromString and FromStringOrNil on texts around canonical       *)
(* strings: with each prefix and tail, cut short, or with one character    *)
(* replaced.  The functions keep no state, so each run is one call on the  *)
(* text drawn at the start.                                                *)

SampleUUIDs == {[i \in 1..16 |-> 16 * k + i - 1] : k \in 0..15} \cup {NamespaceDNS}

Prefixes == {<<>>, <<"{">>, urnPrefix}
Tails == {<<>>, <<"}">>, <<"}", "}">>, <<"0">>, <<"}", "0">>}
OtherChars == {"-", "g", "}", "A", "0"}

Canonical(v) == Bytes(v)
Braced(v) == <<"{">> \o Bytes(v) \o <<"}">>
Urn(v) == urnPrefix \o Bytes(v)

Bodies(s) ==
    {s} \cup {SubSeq(s, 1, Len(s) - n) : n \in 1..MaxCut}
        \cup {[s EXCEPT ![p] = c] : p \in 1..Len(s), c \in OtherChars}

Texts ==
    {pre \o Bytes(v) \o tl : pre \in Prefixes, v \in SampleUUIDs, tl \in Tails}
    \cup {pre \o b \o tl : pre \in Prefixes, b \in Bodies(NamespaceDNSText), tl \in Tails}

CallFromString ==
    /\ op = ""
    /\ op' = "FromString"
    /\ u' = FromString(arg).u
    /\ err' = FromString(arg).err
    /\ UNCHANGED <<arg, storageVars, historyVars, procVars>>

CallFromStringOrNil ==
    /\ op = ""
    /\ op' = "FromStringOrNil"
    /\ u' = FromStringOrNil(arg).u
    /\ err' = FromStringOrNil(arg).err
    /\ UNCHANGED <<arg, storageVars, historyVars, procVars>>

InitParse == Loaded({<<>>}, Texts)
NextParse == CallFromString \/ CallFromStringOrNil
SpecParse == InitParse /\ [][NextParse]_vars

\* What the text is once a urn:uuid: prefix, or else a leading {, is taken off.
Stripped(text) ==
    IF Len(text) >= 9 /\ SubSeq(text, 1, 9) = urnPrefix THEN Drop(text, 9)
    ELSE IF text # <<>> /\ text[1] = "{" THEN Drop(text, 1)
    ELSE text

BeganWithBrace(text) ==
    text # <<>> /\ text[1] = "{" /\ ~(Len(text) >= 9 /\ SubSeq(text, 1, 9) = urnPrefix)

\* C1: FromString of String(v), of "{" + String(v) + "}" and of
\* "urn:uuid:" + String(v) succeeds and returns v, for every UUID v.
C1_RoundTrip ==
    /\ op = "FromString" =>
        \A v \in SampleUUIDs :
            arg \in {Canonical(v), Braced(v), Urn(v)} => err = "nil" /\ u = v
    /\ op = "FromString" /\ Stripped(arg) \in {NamespaceDNSText, NamespaceDNSText \o <<"}">>}
           /\ (BeganWithBrace(arg) <=> Len(Stripped(arg)) = 37)
        => u = <<107, 167, 184, 16, 157, 173, 17, 209, 128, 180, 0, 192, 79, 212, 48, 200>>

\* The three forms of one UUID with the sixteen byte values f0..ff have been parsed.
C1_Witness ==
    /\ op = "FromString" /\ err = "nil"
    /\ u = [i \in 1..16 |-> 239 + i]
    /\ arg = Braced(u)

\* C2: every text whose tail after the fifth group is not well-formed is
\* rejected: after a leading { the tail must be exactly }, otherwise it must
\* be empty.
C2_TailRejected ==
    (/\ op = "FromString"
     /\ Len(Stripped(arg)) >= 36
     /\ LET tl == Drop(Stripped(arg), 36)
        IN  IF BeganWithBrace(arg) THEN tl # <<"}">> ELSE tl # <<>>)
    => err # "nil"

\* C3: no text makes FromString or FromStringOrNil panic; FromStringOrNil
\* returns the UUID FromString parses, or Nil when FromString reports an error.
C3_Total ==
    /\ op \in {"FromString", "FromStringOrNil"} => err # "panic"
    /\ op = "FromStringOrNil" =>
           /\ err = "nil"
           /\ u = IF FromString(arg).err = "nil" THEN FromString(arg).u ELSE Nil

----------------------------------------------------------------------------
(* 64-bit arithmetic on big-endian byte sequences of equal length.         *)

\* a < b
BytesLess(a, b) ==
    \E i \in 1..Len(a) : a[i] < b[i] /\ \A j \in 1..(i - 1) : a[j] = b[j]

\* The carry into byte i of a + b.
RECURSIVE AddCarryInto(_, _, _)
AddCarryInto(a, b, i) ==
    IF i = Len(a) THEN 0
    ELSE (a[i + 1] + b[i + 1] + AddCarryInto(a, b, i + 1)) \div 256

\* a + b, the carry out of the first byte dropped
BytesAdd(a, b) == [i \in 1..Len(a) |-> (a[i] + b[i] + AddCarryInto(a, b, i)) % 256]

\* The n-byte representation of the number k < 2^31.
BytesOf(k, n) ==
    [i \in 1..n |-> IF n - i > 3 THEN 0 ELSE (k \div (256 ^ (n - i))) % 256]

\* Difference in 100-nanosecond intervals between the UUID epoch and the Unix
\* epoch: 122192928000000000 = 0x01B21DD213814000.
epochStart == <<1, 178, 29, 210, 19, 129, 64, 0>>

\* time.Now().UnixNano()/100 at the instants the model's wall clock shows:
\* 2017-07-14 02:40:00.0000255 UTC and the ticks that follow it.
BaseTicks == <<0, 53, 74, 107, 167, 161, 128, 255>>
WallClock == {BytesAdd(BaseTicks, BytesOf(k, 8)) : k \in 0..MaxTick}

\* unixTimeFunc, the default epochFunc, at wall-clock reading ticks
unixTimeFunc(ticks) == BytesAdd(epochStart, ticks)

\* What epochFunc() may return.
ClockReadings == {unixTimeFunc(ticks) : ticks \in WallClock}

----------------------------------------------------------------------------
(* The v1/v2 storage.  crypto/rand is taken to deliver (safeRandom does    *)
(* not panic); what it delivers is one of a few byte patterns.             *)

RandVals == {0, 255}

\* safeRandom(dest), Len(dest) = n: the values dest may hold afterwards
safeRandom(n) == {[i \in 1..n |-> (b * i) % 256] : b \in RandVals}

\* Hardware addresses of interfaces: loopback has none, Ethernet has 6 bytes,
\* an EUI-64 interface 8.
NoAddr == <<>>
Mac == <<0, 192, 79, 212, 48, 200>>
Eui64 == <<2, 27, 33, 255, 254, 10, 11, 12>>
HostInterfaces == {<<>>, <<NoAddr>>, <<NoAddr, Mac>>, <<Eui64, Mac>>}

\* initClockSequence, given the two random bytes read
initClockSequence(buf) == buf[1] * 256 + buf[2]

\* initHardwareAddr, given the host's interfaces and the six random bytes it
\* reads when no interface has an address of 6 bytes or more
initHardwareAddr(ifaces, rnd) ==
    IF \E i \in 1..Len(ifaces) : Len(ifaces[i]) >= 6
    THEN LET first == CHOOSE i \in 1..Len(ifaces) :
                          /\ Len(ifaces[i]) >= 6
                          /\ \A j \in 1..(i - 1) : Len(ifaces[j]) < 6
         IN  CopyAt(Zeros(6), 0, SubSeq(ifaces[first], 1, 6))
    ELSE [rnd EXCEPT ![1] = BitOr(rnd[1], 1)]

\* now <= lastTime
\* timeNow < lastTime in place of timeNow <= lastTime
NotAfterStrict(t, last) == BytesLess(t, last)

NotAfter(t, last) == BytesLess(t, last) \/ t = last

\* clockSequence++ that does not wrap at 2^16
NextClockSequenceNoWrap(cs) == cs + 1

\* clockSequence++ on a uint16
NextClockSequence(cs) == (cs + 1) % 65536

\* The body of getStorage between Lock and Unlock, on storage st with epochFunc
\* returning reading: the storage afterwards and the triple returned.
lockedSection(st, reading) ==
    LET cs == IF NotAfter(reading, st.lastTime)
              THEN NextClockSequence(st.clockSequence)
              ELSE st.clockSequence
    IN  [clockSequence |-> cs, lastTime |-> reading, hardwareAddr |-> st.hardwareAddr,
         ret |-> [now |-> reading, seq |-> cs, addr |-> st.hardwareAddr]]

\* storageOnce.Do(initStorage): the storage afterwards
onceInitStorage(done, st, ifaces, buf, rnd) ==
    IF done THEN st
    ELSE [clockSequence |-> initClockSequence(buf), lastTime |-> st.lastTime,
          hardwareAddr |-> initHardwareAddr(ifaces, rnd)]

\* A whole getStorage call of a single caller.
getStorage(done, st, ifaces, buf, rnd, reading) ==
    lockedSection(onceInitStorage(done, st, ifaces, buf, rnd), reading)

Storage == [clockSequence |-> clockSequence, lastTime |-> lastTime,
            hardwareAddr |-> hardwareAddr]

----------------------------------------------------------------------------
(* The generators.                                                         *)

posixUID == <<0, 0, 3, 232>>
posixGID == <<0, 0, 0, 100>>

\* The UUID NewV1 builds from what getStorage returned: bytes 0-3 the low 32
\* bits of the timestamp, 4-5 its bits 32-47, 6-7 its bits 48-63, 8-9 the clock
\* sequence, 10-15 the node address; then the version and the variant.
NewV1(r) ==
    LET timeLow == SubSeq(r.now, 5, 8)
        timeMid == SubSeq(r.now, 3, 4)
        timeHi == SubSeq(r.now, 1, 2)
        clockSeq == <<r.seq \div 256, r.seq % 256>>
    IN  SetVariant(SetVersion(timeLow \o timeMid \o timeHi \o clockSeq \o r.addr, 1))

\* The UUID NewV2(domain) builds from what getStorage returned: as NewV1, with
\* the POSIX UID or GID in bytes 0-3 and the domain in byte 9.
NewV2(domain, r) ==
    LET id == IF domain = DomainPerson THEN posixUID
              ELSE IF domain = DomainGroup THEN posixGID
              ELSE Zeros(4)
        timeMid == SubSeq(r.now, 3, 4)
        timeHi == SubSeq(r.now, 1, 2)
        clockSeq == <<r.seq \div 256, domain>>
    IN  SetVariant(SetVersion(id \o timeMid \o timeHi \o clockSeq \o r.addr, 2))

\* newFromHash: the first 16 bytes of the digest h.Sum(nil)
newFromHash(digest) == CopyAt(Nil, 0, SubSeq(digest, 1, 16))

NewV3(digest) == SetVariant(SetVersion(newFromHash(digest), 3))

NewV4(rnd) == SetVariant(SetVersion(CopyAt(Nil, 0, rnd), 4))

NewV5(digest) == SetVariant(SetVersion(newFromHash(digest), 5))

\* NewTime(t), t.Unix() = sec (an int64), rnd the 11 random bytes read
NewTime(sec, rnd) ==
    LET shifted == SubSeq(sec, 4, 8) \o <<0, 0, 0>>
        u0 == CopyAt(Nil, 0, shifted)
        u1 == CopyAt(u0, 5, rnd)
    IN  SetVariant(SetVersion(u1, 6))

\* time.Unix(ts, 0)
UnixTime(ts) == [sec |-> ts, nsec |-> 0]

\* The zero time.Time (no Unix second stands for it here).
ZeroTime == [sec |-> <<>>, nsec |-> 0]

\* UUID.Time
Time(v) ==
    IF Version(v) = 1
    THEN [t |-> UnixTime(<<BitAnd(v[7], 15), v[8], v[5], v[6], v[1], v[2], v[3], v[4]>>),
          ok |-> TRUE]
    ELSE IF Version(v) = 6
    THEN LET sign == IF v[1] >= 128 THEN 255 ELSE 0
         IN  [t |-> UnixTime(<<sign, sign, sign>> \o SubSeq(v, 1, 5)), ok |-> TRUE]
    ELSE [t |-> ZeroTime, ok |-> FALSE]

----------------------------------------------------------------------------
(* Calls of the generators by a single caller.                             *)

\* h.Sum(nil) for a hash of n bytes: MD5 and SHA-1 are not computed; a digest
\* is any of these byte strings.
Digests(n) == {[i \in 1..n |-> (b * i + c) % 256] : b \in {0, 1, 37},
                                                    c \in {0, 64, 128, 192, 255}}

\* t.Unix() of the instants NewTime is given: 1970-01-01, 2017-07-14 02:40:00,
\* one second before 1970, 2^38 - 1 and 2^39 seconds after it.
UnixSeconds == {Zeros(8), <<0, 0, 0, 0, 89, 104, 47, 0>>,
                <<255, 255, 255, 255, 255, 255, 255, 255>>,
                <<0, 0, 0, 63, 255, 255, 255, 255>>, <<0, 0, 0, 128, 0, 0, 0, 0>>}
Instants == {[sec |-> s, nsec |-> n] : s \in UnixSeconds, n \in {0, 999999999}}

\* The random bytes initStorage reads, when it is still to run.
SeedBytes(n) == IF storageDone THEN {Zeros(n)} ELSE safeRandom(n)

CallNewV1 ==
    \E reading \in ClockReadings, buf \in SeedBytes(2), rnd \in SeedBytes(6) :
        \E g \in {getStorage(storageDone, Storage, interfaces, buf, rnd, reading)} :
            /\ storageDone' = TRUE
            /\ clockSequence' = g.clockSequence
            /\ lastTime' = g.lastTime
            /\ hardwareAddr' = g.hardwareAddr
            /\ op' = "NewV1" /\ arg' = g.ret /\ u' = NewV1(g.ret) /\ err' = "nil"
            /\ UNCHANGED <<interfaces, procVars>>

CallNewV2 ==
    \E domain \in {DomainPerson, DomainGroup, DomainOrg},
       reading \in ClockReadings, buf \in SeedBytes(2), rnd \in SeedBytes(6) :
        \E g \in {getStorage(storageDone, Storage, interfaces, buf, rnd, reading)} :
            /\ storageDone' = TRUE
            /\ clockSequence' = g.clockSequence
            /\ lastTime' = g.lastTime
            /\ hardwareAddr' = g.hardwareAddr
            /\ op' = "NewV2" /\ arg' = [domain |-> domain, ret |-> g.ret]
            /\ u' = NewV2(domain, g.ret) /\ err' = "nil"
            /\ UNCHANGED <<interfaces, procVars>>

GenNewV1 ==
    /\ calls < MaxCalls
    /\ CallNewV1
    /\ calls' = calls + 1
    /\ UNCHANGED <<marked, incs>>

GenNewV2 ==
    /\ calls < MaxCalls
    /\ CallNewV2
    /\ calls' = calls + 1
    /\ UNCHANGED <<marked, incs>>

GenNewV3 ==
    \E digest \in Digests(16) :
        /\ op' = "NewV3" /\ arg' = digest /\ u' = NewV3(digest) /\ err' = "nil"
        /\ UNCHANGED <<storageVars, historyVars, procVars>>

GenNewV4 ==
    \E rnd \in safeRandom(16) :
        /\ op' = "NewV4" /\ arg' = rnd /\ u' = NewV4(rnd) /\ err' = "nil"
        /\ UNCHANGED <<storageVars, historyVars, procVars>>

GenNewV5 ==
    \E digest \in Digests(20) :
        /\ op' = "NewV5" /\ arg' = digest /\ u' = NewV5(digest) /\ err' = "nil"
        /\ UNCHANGED <<storageVars, historyVars, procVars>>

GenNewTime ==
    \E t \in Instants, rnd \in safeRandom(11) :
        /\ op' = "NewTime" /\ arg' = t /\ u' = NewTime(t.sec, rnd) /\ err' = "nil"
        /\ UNCHANGED <<storageVars, historyVars, procVars>>

InitGen == Loaded(HostInterfaces, {<<>>})
NextGen == GenNewV1 \/ GenNewV2 \/ GenNewV3 \/ GenNewV4 \/ GenNewV5 \/ GenNewTime
Spec == InitGen /\ [][NextGen]_vars

VersionOf(name) ==
    CASE name = "NewV1" -> 1 [] name = "NewV2" -> 2 [] name = "NewV3" -> 3
      [] name = "NewV4" -> 4 [] name = "NewV5" -> 5 [] name = "NewTime" -> 6

\* C5: whatever it was built from, the UUID a generator returns has the
\* generator's version (1..5, and 6 for NewTime) and the RFC 4122 variant:
\* the high nibble of byte 6 is the version and the top two bits of byte 8 are 10.
C5_Tags ==
    op # "" =>
        /\ Version(u) = VersionOf(op) /\ u[7] \div 16 = VersionOf(op)
        /\ Variant(u) = VariantRFC4122 /\ u[9] \div 64 = 2

\* NewV3 has tagged a digest whose bytes 6 and 8 had all their bits set.
C5_Witness ==
    /\ op = "NewV3" /\ arg[7] = 255 /\ arg[9] = 255
    /\ Version(u) = 3 /\ Variant(u) = VariantRFC4122

\* a * k for a number k of at most 2^22, the carry out of the first byte
\* dropped; MulCarryInto is the carry into byte i.
RECURSIVE MulCarryInto(_, _, _)
MulCarryInto(a, k, i) ==
    IF i = Len(a) THEN 0
    ELSE (a[i + 1] * k + MulCarryInto(a, k, i + 1)) \div 256

BytesMul(a, k) == [i \in 1..Len(a) |-> (a[i] * k + MulCarryInto(a, k, i)) % 256]

\* The instant, in 100ns ticks since the UUID epoch on 12 bytes, of Unix second
\* sec (not negative): epochStart + sec * 10^7.
TicksOfUnix(sec) ==
    BytesAdd(Zeros(4) \o epochStart,
             BytesMul(BytesMul(Zeros(4) \o sec, 10000), 1000))

\* Unix time t is the second in which clock reading T (ticks since 1582) falls.
DenotesReading(t, T) ==
    LET lo == TicksOfUnix(t.sec)
        hi == BytesAdd(lo, BytesOf(10000000, 12))
        T12 == Zeros(4) \o T
    IN  ~BytesLess(T12, lo) /\ BytesLess(T12, hi)

\* C7: Time returns the date encoded in the UUID: for NewTime(t), t truncated
\* to whole seconds; for NewV1 at clock reading T, the instant T denotes; and
\* ok = false for every version other than 1 and 6.
C7_Time ==
    /\ op = "NewTime" => Time(u) = [t |-> [sec |-> arg.sec, nsec |-> 0], ok |-> TRUE]
    /\ op = "NewV1" => Time(u).ok /\ DenotesReading(Time(u).t, arg.now)
    /\ op # "" /\ Version(u) \notin {1, 6} => ~Time(u).ok

----------------------------------------------------------------------------
(* The binary codec and Variant: FromBytes and FromBytesOrNil on slices of *)
(* 15, 16 and 17 bytes whose byte 8 takes each of its 256 values.  Each    *)
(* run is one call on the slice drawn at the start.                        *)

FillBytes == {0, 90, 255}

ByteSlices ==
    {[i \in 1..n |-> IF i = 9 THEN b8 ELSE (f + i) % 256] :
        n \in 15..17, b8 \in 0..255, f \in FillBytes}

CallFromBytes ==
    /\ op = ""
    /\ op' = "FromBytes"
    /\ u' = FromBytes(arg).u
    /\ err' = FromBytes(arg).err
    /\ UNCHANGED <<arg, storageVars, historyVars, procVars>>

CallFromBytesOrNil ==
    /\ op = ""
    /\ op' = "FromBytesOrNil"
    /\ u' = FromBytesOrNil(arg).u
    /\ err' = FromBytesOrNil(arg).err
    /\ UNCHANGED <<arg, storageVars, historyVars, procVars>>

InitBytes == Loaded({<<>>}, ByteSlices)
NextBytes == CallFromBytes \/ CallFromBytesOrNil
SpecBytes == InitBytes /\ [][NextBytes]_vars

\* The RFC 4122 variant table on the top bits of byte 8: 0xx NCS, 10x RFC 4122,
\* 110 Microsoft, 111 reserved for the future.
VariantTable(b8) ==
    IF b8 \div 128 = 0 THEN VariantNCS
    ELSE IF b8 \div 64 = 2 THEN VariantRFC4122
    ELSE IF b8 \div 32 = 6 THEN VariantMicrosoft
    ELSE VariantFuture

\* C6: for each of the 256 values of byte 8, Variant returns the entry of the
\* RFC 4122 table for its top bits, whatever the other 15 bytes are.
C6_Variant ==
    op \in {"FromBytes", "FromBytesOrNil"} /\ Len(arg) = 16 =>
        /\ u = arg
        /\ Variant(u) = VariantTable(arg[9])

\* A UUID whose byte 8 is 0xe0 has been decoded, and its variant is Future.
C6_Witness ==
    /\ op = "FromBytes" /\ err = "nil" /\ Len(arg) = 16
    /\ u[9] = 224 /\ Variant(u) = VariantFuture

----------------------------------------------------------------------------
(* NewV1 called again and again by one caller, the clock advancing,        *)
(* standing still or going back between calls.  The first or the second  *)
(* call is marked: marked is <<>> or <<its UUID, its number>>, and incs    *)
(* counts the clockSequence++ executed since.                              *)

Min(a, b) == IF a < b THEN a ELSE b

MarkedCalls == {1, 2}

SeqNewV1 ==
    /\ incs < MaxIncs
    /\ marked = <<>> => calls + 1 \in MarkedCalls
    /\ CallNewV1
    /\ \E mark \in BOOLEAN :
        /\ marked # <<>> => ~mark
        /\ marked = <<>> /\ calls + 2 \notin MarkedCalls => mark
        /\ marked' = IF mark THEN <<u', calls + 1>> ELSE marked
    /\ incs' = IF marked # <<>> /\ storageDone /\ clockSequence' # clockSequence
               THEN incs + 1 ELSE incs
    /\ calls' = Min(calls + 1, 3)

InitV1 == Loaded({<<NoAddr, Mac>>}, {<<>>})
NextV1 == SeqNewV1
SpecV1 == InitV1 /\ [][NextV1]_vars

\* The UUID in u was returned by a NewV1 call made after the marked one.
AfterMarked == marked # <<>> /\ op = "NewV1" /\ calls > marked[2]

\* C4 as stated: any two UUIDs returned by NewV1 are distinct, whatever the
\* clock readings were.
C4_Distinct == AfterMarked => u # marked[1]

\* C4 as amended: two UUIDs returned by NewV1 are distinct when the clock
\* sequence was incremented fewer than 2^14 times between the two calls.
C4_DistinctWithin == AfterMarked /\ incs < 2 ^ 14 => u # marked[1]

\* 2^14 - 1 increments after the marked call, NewV1 has returned a UUID with
\* the timestamp of the marked one, and the two differ.
C4_Witness ==
    /\ AfterMarked /\ incs = 2 ^ 14 - 1
    /\ SubSeq(u, 1, 8) = SubSeq(marked[1], 1, 8)
    /\ u # marked[1]

\* C8: a getStorage call made after initialization increments clockSequence
\* modulo 2^16 when the new reading is not greater than lastTime and leaves it
\* alone otherwise, sets lastTime to the reading, leaves the node address alone
\* and returns (reading, clockSequence after the step, node address).
C8_Step ==
    [][storageDone /\ op' = "NewV1" =>
        LET reading == arg'.now
        IN  /\ clockSequence' = IF BytesLess(lastTime, reading)
                                THEN clockSequence
                                ELSE (clockSequence + 1) % 65536
            /\ lastTime' = reading
            /\ hardwareAddr' = hardwareAddr
            /\ arg' = [now |-> reading, seq |-> clockSequence', addr |-> hardwareAddr]
    ]_vars

\* getStorage has just wrapped clockSequence from 65535 to 0 on a reading that
\* was behind lastTime.
C8_Witness ==
    /\ storageDone /\ op = "NewV1" /\ incs > 0
    /\ clockSequence = 0 /\ arg.seq = 0
    /\ arg.now = unixTimeFunc(BaseTicks)

----------------------------------------------------------------------------
(* getStorage called by several goroutines at once (from NewV1 or NewV2),  *)
(* one step per access to a shared variable.  storageOnce is sync.Once:    *)
(* Do loads done and, finding it unset, takes the Once's own mutex, looks  *)
(* at done again, runs initStorage, stores done and releases the mutex.    *)

\* Lock() that returns whoever holds the mutex
MutexFreeAlways(m) == TRUE

\* Lock() returns once nobody holds the mutex m.
MutexFree(m) == m = 0

\* doSlow that runs f without looking at done again
OnceMustRunAlways(done) == TRUE

\* doSlow runs f when done is still unset under the Once's mutex.
OnceMustRun(done) == ~done

Goto(p, label) == pc' = [pc EXCEPT ![p] = label]

Call(p) ==
    /\ pc[p] = "idle" /\ calls < MaxConcCalls
    /\ calls' = calls + 1
    /\ Goto(p, "onceLoad")
    /\ UNCHANGED <<valueVars, storageVars, marked, incs, now, seq, addr,
                   storageMutex, onceMutex, initRuns, snap, retAddrs>>

OnceLoad(p) ==
    /\ pc[p] = "onceLoad"
    /\ Goto(p, IF storageDone THEN "lock" ELSE "onceLock")
    /\ UNCHANGED <<valueVars, storageVars, historyVars, now, seq, addr,
                   storageMutex, onceMutex, initRuns, snap, retAddrs>>

OnceLock(p) ==
    /\ pc[p] = "onceLock" /\ MutexFree(onceMutex)
    /\ onceMutex' = p
    /\ Goto(p, "onceCheck")
    /\ UNCHANGED <<valueVars, storageVars, historyVars, now, seq, addr,
                   storageMutex, initRuns, snap, retAddrs>>

OnceCheck(p) ==
    /\ pc[p] = "onceCheck"
    /\ IF OnceMustRun(storageDone)
       THEN initRuns' = initRuns + 1 /\ Goto(p, "initClockSequence")
       ELSE initRuns' = initRuns /\ Goto(p, "onceUnlock")
    /\ UNCHANGED <<valueVars, storageVars, historyVars, now, seq, addr,
                   storageMutex, onceMutex, snap, retAddrs>>

InitClockSequence(p) ==
    /\ pc[p] = "initClockSequence"
    /\ \E buf \in safeRandom(2) : clockSequence' = initClockSequence(buf)
    /\ Goto(p, "initHardwareAddr")
    /\ UNCHANGED <<valueVars, interfaces, storageDone, lastTime, hardwareAddr,
                   historyVars, now, seq, addr, storageMutex, onceMutex, initRuns,
                   snap, retAddrs>>

InitHardwareAddr(p) ==
    /\ pc[p] = "initHardwareAddr"
    /\ \E rnd \in safeRandom(6) : hardwareAddr' = initHardwareAddr(interfaces, rnd)
    /\ Goto(p, "onceStore")
    /\ UNCHANGED <<valueVars, interfaces, storageDone, clockSequence, lastTime,
                   historyVars, now, seq, addr, storageMutex, onceMutex, initRuns,
                   snap, retAddrs>>

OnceStore(p) ==
    /\ pc[p] = "onceStore"
    /\ storageDone' = TRUE
    /\ Goto(p, "onceUnlock")
    /\ UNCHANGED <<valueVars, interfaces, clockSequence, lastTime, hardwareAddr,
                   historyVars, now, seq, addr, storageMutex, onceMutex, initRuns,
                   snap, retAddrs>>

OnceUnlock(p) ==
    /\ pc[p] = "onceUnlock"
    /\ onceMutex' = 0
    /\ Goto(p, "lock")
    /\ UNCHANGED <<valueVars, storageVars, historyVars, now, seq, addr,
                   storageMutex, initRuns, snap, retAddrs>>

Lock(p) ==
    /\ pc[p] = "lock" /\ MutexFree(storageMutex)
    /\ storageMutex' = p
    /\ snap' = [snap EXCEPT ![p] = <<Storage>>]
    /\ Goto(p, "epochFunc")
    /\ UNCHANGED <<valueVars, storageVars, historyVars, now, seq, addr,
                   onceMutex, initRuns, retAddrs>>

EpochFunc(p) ==
    /\ pc[p] = "epochFunc"
    /\ \E reading \in ClockReadings : now' = [now EXCEPT ![p] = reading]
    /\ Goto(p, "compare")
    /\ UNCHANGED <<valueVars, storageVars, historyVars, seq, addr,
                   storageMutex, onceMutex, initRuns, snap, retAddrs>>

Compare(p) ==
    /\ pc[p] = "compare"
    /\ clockSequence' = IF NotAfter(now[p], lastTime)
                        THEN NextClockSequence(clockSequence)
                        ELSE clockSequence
    /\ Goto(p, "setLastTime")
    /\ UNCHANGED <<valueVars, interfaces, storageDone, lastTime, hardwareAddr,
                   historyVars, now, seq, addr, storageMutex, onceMutex, initRuns,
                   snap, retAddrs>>

SetLastTime(p) ==
    /\ pc[p] = "setLastTime"
    /\ lastTime' = now[p]
    /\ Goto(p, "readSeq")
    /\ UNCHANGED <<valueVars, interfaces, storageDone, clockSequence, hardwareAddr,
                   historyVars, now, seq, addr, storageMutex, onceMutex, initRuns,
                   snap, retAddrs>>

ReadSeq(p) ==
    /\ pc[p] = "readSeq"
    /\ seq' = [seq EXCEPT ![p] = clockSequence]
    /\ Goto(p, "readAddr")
    /\ UNCHANGED <<valueVars, storageVars, historyVars, now, addr,
                   storageMutex, onceMutex, initRuns, snap, retAddrs>>

ReadAddr(p) ==
    /\ pc[p] = "readAddr"
    /\ addr' = [addr EXCEPT ![p] = hardwareAddr]
    /\ Goto(p, "unlock")
    /\ UNCHANGED <<valueVars, storageVars, historyVars, now, seq,
                   storageMutex, onceMutex, initRuns, snap, retAddrs>>

Unlock(p) ==
    /\ pc[p] = "unlock"
    /\ storageMutex' = 0
    /\ Goto(p, "return")
    /\ UNCHANGED <<valueVars, storageVars, historyVars, now, seq, addr,
                   onceMutex, initRuns, snap, retAddrs>>

Return(p) ==
    /\ pc[p] = "return"
    /\ retAddrs' = retAddrs \cup {addr[p]}
    /\ Goto(p, "idle")
    /\ UNCHANGED <<valueVars, storageVars, historyVars, now, seq, addr,
                   storageMutex, onceMutex, initRuns, snap>>

InitConc == Loaded({<<>>, <<NoAddr, Mac>>}, {<<>>})
NextConc ==
    \E p \in Procs :
        \/ Call(p) \/ OnceLoad(p) \/ OnceLock(p) \/ OnceCheck(p)
        \/ InitClockSequence(p) \/ InitHardwareAddr(p) \/ OnceStore(p)
        \/ OnceUnlock(p) \/ Lock(p) \/ EpochFunc(p) \/ Compare(p)
        \/ SetLastTime(p) \/ ReadSeq(p) \/ ReadAddr(p) \/ Unlock(p) \/ Return(p)
SpecConc == InitConc /\ [][NextConc]_vars

\* Where a goroutine is between storageMutex.Lock() and Unlock().
Section == {"epochFunc", "compare", "setLastTime", "readSeq", "readAddr", "unlock"}
\* Where its next step reads or writes clockSequence, lastTime or hardwareAddr:
\* inside getStorage's section, and inside initStorage.
SectionAccess == {"compare", "setLastTime", "readSeq", "readAddr"}
InitAccess == {"initClockSequence", "initHardwareAddr"}

\* At most one goroutine is in the section, and a call that has gone through
\* it has done to the storage, and returns, what the section does when run
\* alone on the storage it found: the triples are those of the calls run one
\* after the other in the order they took the mutex.
RunsAsOneUnit ==
    /\ Cardinality({p \in Procs : pc[p] \in Section}) <= 1
    /\ \A p \in Procs :
        /\ pc[p] \in Section => storageMutex = p
        /\ pc[p] \in {"unlock", "return"} =>
               <<now[p], seq[p], addr[p]>> =
                   LET r == lockedSection(snap[p][1], now[p]).ret
                   IN  <<r.now, r.seq, r.addr>>
        /\ pc[p] = "unlock" =>
               /\ clockSequence = lockedSection(snap[p][1], now[p]).clockSequence
               /\ lastTime = now[p]
               /\ hardwareAddr = snap[p][1].hardwareAddr

\* C9 as stated: the section of getStorage runs as one atomic unit, and
\* clockSequence, lastTime and hardwareAddr are never read or written outside it.
C9_Exclusive ==
    /\ RunsAsOneUnit
    /\ \A p \in Procs : pc[p] \in SectionAccess \cup InitAccess => storageMutex = p

\* C9 as amended: the section runs as one atomic unit, and the three variables
\* are read or written outside it only by initStorage, which writes
\* clockSequence and hardwareAddr under storageOnce, before any caller has
\* entered the section.
C9_ExclusiveButInit ==
    /\ RunsAsOneUnit
    /\ \A p \in Procs :
        /\ pc[p] \in SectionAccess => storageMutex = p
        /\ pc[p] \in InitAccess =>
               /\ onceMutex = p /\ ~storageDone /\ storageMutex = 0
               /\ \A q \in Procs : pc[q] \notin Section \cup {"lock", "return"}

\* One goroutine is leaving the section with the clock sequence it incremented
\* while another waits for the mutex.
C9_Witness ==
    \E p, q \in Procs :
        /\ pc[p] = "unlock" /\ pc[q] = "lock"
        /\ seq[p] = NextClockSequence(snap[p][1].clockSequence)

\* C10: initStorage runs once however many goroutines race to the first call,
\* it is over before any caller reads clockSequence or hardwareAddr, later
\* calls do not run it again, and every call returns the same node address.
C10_Once ==
    /\ initRuns <= 1
    /\ \A p \in Procs :
           pc[p] \in Section \cup {"lock", "return"} =>
               /\ storageDone /\ initRuns = 1
               /\ \A q \in Procs : pc[q] \notin InitAccess \cup {"onceStore"}
    /\ retAddrs \subseteq {hardwareAddr}

\* A goroutine that lost the race for the first call is inside doSlow, holding
\* the Once's mutex, and finds initStorage already run; a call has returned.
C10_Witness ==
    \E p \in Procs :
        /\ pc[p] = "onceCheck" /\ storageDone /\ initRuns = 1
        /\ retAddrs # {}

====
